---- MODULE Spec2Model ----
(***************************************************************************)
(* pei: a privilege-escalating init.  The model follows the Daemon of      *)
(* src/main_test.go (daemon.go and ipc.go are concatenated there) and the  *)
(* credential gate of src/privilege.go.                                    *)
(*                                                                         *)
(* Tasks: the main goroutine (Start, then handleSignals, then              *)
(* shutdownServices), one monitorService goroutine per started child, the  *)
(* serviceManager restart worker, the globalReaper, the IPC accept loop    *)
(* with one request handler, and the environment (children exiting,        *)
(* signals delivered to pid 1, control-channel clients).                   *)
(***************************************************************************)
EXTENDS Integers, Sequences, FiniteSets, TLC

\* ------------------------------------------------------------------ bounds
MaxChildren == 3       \* child processes spawned in one run
MaxEnv == 2            \* kinds of input from outside met in one run
RestartChanCap == 2    \* modelled capacity of restartChan (100 in the code)
MaxRestartsCfg == 1    \* largest max_restarts value in the catalog
MaxSignals == 3        \* signals delivered to pid 1 in a run with several signals
MaxRequests == 2       \* requests sent in a run with several requests

\* ------------------------------------------------------- program constants
RootUid == 0
AppUid == 1000
AppGid == AppUid
ServiceUid == AppUid + 1     \* the services run as a user of their own
SigChanCap == 1              \* make(chan os.Signal, 1)

RestartAlways == "always"
RestartOnFailure == "on-failure"
RestartNever == "never"

ServiceNames == {"a", "b"}

ShutdownSignals == {"TERM", "INT", "QUIT"}
ForwardSignals == {"HUP", "USR1", "USR2"}
IgnoredSignals == {"CHLD", "PIPE"}
Signals == ShutdownSignals \cup ForwardSignals \cup IgnoredSignals

\* one signal of each class of the dispatcher's switch
SentSignals == {"TERM", "HUP", "CHLD"}

\* service descriptors: the fields monitorService consults
Descriptor(r, m, o, i) == [restart |-> r, maxRestarts |-> m, oneshot |-> o, interval |-> i]

\* the catalogs a run may be started with: name -> descriptor
Catalog1(d) == [s \in {"a"} |-> d]
Catalog2(d1, d2) == [s \in {"a", "b"} |-> IF s = "a" THEN d1 ELSE d2]

Catalogs ==
    { Catalog1(Descriptor(RestartAlways, MaxRestartsCfg, FALSE, 0)),
      Catalog1(Descriptor(RestartOnFailure, 0, FALSE, 0)),
      Catalog1(Descriptor(RestartNever, MaxRestartsCfg, TRUE, 1)),
      Catalog1(Descriptor(RestartAlways, 0, TRUE, 0)),
      Catalog2(Descriptor(RestartNever, 0, FALSE, 0), Descriptor(RestartNever, 0, FALSE, 0)) }

VARIABLES
    cfg,             \* d.config.Services: name -> descriptor (immutable)
    cred,            \* process credentials: real, effective, saved uid and gid
    env,             \* the kinds of input from outside met so far
    procs,           \* every child spawned so far, indexed by pid
    serviceCmds,     \* d.serviceCmds: name -> pid of the recorded handle, 0 if none
    serviceStatus,   \* d.serviceStatus: name -> status record, or NoStatus
    serviceOutputs,  \* d.serviceOutputs: name -> pid of the registered capture, 0 if none
    restartChan,     \* d.restartChan
    mainPc,          \* position of the main goroutine
    toStart,         \* services the start loop has not visited yet
    waiters,         \* shutdownServices: children whose c.Wait() goroutine is blocked
    smPc,            \* position of the serviceManager goroutine
    smSvc,           \* request the serviceManager is serving
    reaperUp,        \* globalReaper has been launched
    listener,        \* position of the startIPCServer goroutine
    socketFile,      \* the socket path exists in the filesystem
    sigChan,         \* handleSignals: the channel signal.Notify delivers to
    sigLeft,         \* signals the environment may still deliver to pid 1
    shutdownAsked,   \* a TERM, INT or QUIT has been delivered to pid 1
    reqLeft,         \* requests the control-channel clients may still send
    client,          \* the control-channel client and the read request being served
    ipc,             \* the in-flight control-channel signal request
    self,            \* the supervisor process: its pid and the configuration file
    gate,            \* the gate call on record: the last one made on its own, or
                     \* the last elevation that failed in serviceManager
    stop             \* d.ctx and the call of Stop(): done, position, c.Wait() goroutines

\* the configured services
Services == DOMAIN cfg

vars == <<cfg, cred, env, procs, serviceCmds, serviceStatus, serviceOutputs,
          restartChan, mainPc, toStart, waiters,
          smPc, smSvc, reaperUp, listener, socketFile, sigChan, sigLeft,
          shutdownAsked, reqLeft, client, ipc, self, gate, stop>>

\* ------------------------------------------------------- credential gate
\* setreuid(2): an unprivileged caller may set the real uid to the real or
\* effective uid and the effective uid to the real, effective or saved uid;
\* the saved uid follows the new effective uid whenever the real uid is set.
\* trans is TRUE when the call fails transiently (EAGAIN).
SetreuidOk(c, r, e, trans) ==
    /\ ~trans
    /\ \/ c.euid = RootUid
       \/ /\ r \in {c.ruid, c.euid}
          /\ e \in {c.ruid, c.euid, c.suid}

\* (variant: the call leaves the saved uid as it was)
SetreuidKeepsSaved(c, r, e) == [c EXCEPT !.ruid = r, !.euid = e]

Setreuid(c, r, e) == [c EXCEPT !.ruid = r, !.euid = e, !.suid = e]

\* setregid(2): the same rule on the gids; the privilege is CAP_SETGID, which
\* the process holds exactly while its effective uid is root.
SetregidOk(c, r, e, trans) ==
    /\ ~trans
    /\ \/ c.euid = RootUid
       \/ /\ r \in {c.rgid, c.egid}
          /\ e \in {c.rgid, c.egid, c.sgid}

Setregid(c, r, e) == [c EXCEPT !.rgid = r, !.egid = e, !.sgid = e]

\* which call of a gate operation fails transiently
FaultKinds == {"none", "lookup", "uid", "gid", "gid+restore"}

\* (variant: the gid error is returned without restoring the uid)
dropPrivilegesNoRestore(c, f) ==
    LET rootUid == c.euid
        rootGid == c.egid
        c1 == Setreuid(c, rootUid, AppUid)
        c2 == Setregid(c1, rootGid, AppGid)
    IN  IF f = "lookup" THEN [cred |-> c, err |-> "lookup"]
        ELSE IF ~SetreuidOk(c, rootUid, AppUid, f = "uid")
             THEN [cred |-> c, err |-> "setreuid"]
        ELSE IF SetregidOk(c1, rootGid, AppGid, f \in {"gid", "gid+restore"})
             THEN [cred |-> c2, err |-> "nil"]
        ELSE [cred |-> c1, err |-> "setregid"]

\* dropPrivileges(appUser, appGroup): result credentials and error
dropPrivileges(c, f) ==
    LET rootUid == c.euid
        rootGid == c.egid
        c1 == Setreuid(c, rootUid, AppUid)
        c2 == Setregid(c1, rootGid, AppGid)
        c3 == Setreuid(c1, AppUid, rootUid)
    IN  IF f = "lookup" THEN [cred |-> c, err |-> "lookup"]
        ELSE IF ~SetreuidOk(c, rootUid, AppUid, f = "uid")
             THEN [cred |-> c, err |-> "setreuid"]
        ELSE IF SetregidOk(c1, rootGid, AppGid, f \in {"gid", "gid+restore"})
             THEN [cred |-> c2, err |-> "nil"]
        ELSE IF SetreuidOk(c1, AppUid, rootUid, f = "gid+restore")
             THEN [cred |-> c3, err |-> "setregid"]
        ELSE [cred |-> c1, err |-> "setregid+restore"]

\* elevatePrivileges(): result credentials and error
elevatePrivileges(c, f) ==
    LET rootUid == c.ruid
        rootGid == c.rgid
        prevEffectiveUid == c.euid
        prevEffectiveGid == c.egid
        c1 == Setreuid(c, prevEffectiveUid, rootUid)
        c2 == Setregid(c1, prevEffectiveGid, rootGid)
        c3 == Setreuid(c1, rootUid, prevEffectiveUid)
    IN  IF ~SetreuidOk(c, prevEffectiveUid, rootUid, f = "uid")
             THEN [cred |-> c, err |-> "setreuid"]
        ELSE IF SetregidOk(c1, prevEffectiveGid, rootGid, f \in {"gid", "gid+restore"})
             THEN [cred |-> c2, err |-> "nil"]
        ELSE IF SetreuidOk(c1, rootUid, prevEffectiveUid, f = "gid+restore")
             THEN [cred |-> c3, err |-> "setregid"]
        ELSE [cred |-> c1, err |-> "setregid+restore"]

\* Stop() has not been called: d.ctx is live
NoStop == [done |-> FALSE, pc |-> "idle", waiters |-> {}]

\* no call of the gate recorded
NoCall == [op |-> "none", fault |-> "none", pre |-> <<>>, err |-> "nil"]

\* inputs from outside: a signal delivered to pid 1, a control-channel
\* request, a system call that fails for a transient reason; a run meets
\* each kind at most once and at most MaxEnv kinds
InputKinds == {"signal", "request", "fault"}
CanInput(e, kind) == kind \notin e /\ Cardinality(e) < MaxEnv

\* the faults a gate call may suffer when the inputs met so far are e
DropFaults(e) == IF CanInput(e, "fault") THEN FaultKinds ELSE {"none"}
ElevateFaults(e) == IF CanInput(e, "fault") THEN FaultKinds \ {"lookup"} ELSE {"none"}
Charge(e, f) == IF f = "none" THEN e ELSE e \cup {"fault"}

\* ------------------------------------------------------------ helpers
NoStatus == [exists |-> FALSE, running |-> FALSE, pid |-> 0, startTime |-> 0, restarts |-> 0]

\* the status values of the services in names, as they stand in table
StatusOf(table, names) == [n \in names |-> table[n]]

\* no read request answered yet
NoRead == [cmd |-> "", table |-> <<>>, reply |-> <<>>, stable |-> FALSE]

\* the control-channel client: the service whose restart it was last granted
\* and the pid that service had then; the read request in service: the
\* entries its handler holds (names), the status table when it obtained
\* them, the response it encoded, and stable: the table was the same when
\* the response was encoded; prev is the read request answered before;
\* restart is the response to its last "restart" request, signal the
\* failure response to its last "signal" request
NoClient ==
    [asked |-> "", prePid |-> 0, pc |-> "idle", cmd |-> "", after |-> FALSE,
     names |-> {}, table |-> <<>>, reply |-> <<>>, stable |-> FALSE, prev |-> NoRead,
     restart |-> "", signal |-> ""]

Pids == 1..Len(procs)

\* the supervisor process is alive: Start has not returned
Alive == mainPc \notin {"entry", "refused", "fatal", "returned"}

\* cmd.Start() with SysProcAttr.Credential: the forked child changes its
\* groups, gid and uid to those of the service's user before exec, which
\* needs an effective uid of root
SpawnFaultKinds == {"none", "lookup", "pipe", "start"}
SpawnFaults(e) == IF CanInput(e, "fault") THEN SpawnFaultKinds ELSE {"none"}
CanSpawn(c) == c.euid = RootUid
Spawned(c, o) == o = "none" /\ CanSpawn(c)

\* Process.Signal: fails once the child has been waited on, and, by the
\* rule of kill(2), unless the sender's effective uid is root or its real or
\* effective uid is the uid of the child
SignalOk(p, c) ==
    /\ procs[p].st # "reaped"
    /\ c.euid = RootUid \/ ServiceUid \in {c.ruid, c.euid}

\* the two pipes of a child that Start() of a capture gives a reader each
Streams == {"stdout", "stderr"}

NewProc(s, monitored, initial) ==
    [svc |-> s, initial |-> initial, st |-> "running", code |-> 0, waited |-> 0,
     mon |-> IF monitored THEN "wait" ELSE "none", seen |-> 0,
     term |-> FALSE, kill |-> FALSE, fwd |-> FALSE, cap |-> "on",
     rd |-> [st \in Streams |-> "scan"], out |-> {}, held |-> FALSE]

\* capture.Stop() on the capture registered under name, then delete it
StopCapture(ps, outs, name) ==
    IF outs[name] = 0 THEN ps
    ELSE [ps EXCEPT ![outs[name]].cap = "stopped"]

\* stopAllServiceOutputCaptures
StopAllCaptures(ps, outs) ==
    [p \in DOMAIN ps |->
        IF \E n \in Services : outs[n] = p THEN [ps[p] EXCEPT !.cap = "stopped"] ELSE ps[p]]

\* ---------------------------------------------------------------- Init
\* the binary is setuid root: at entry the effective and saved uid are root,
\* the real uid and the gids are those of the launching user
LaunchUids == {AppUid}
LaunchGids == {AppGid}

EntryCreds ==
    { [ruid |-> u, euid |-> RootUid, suid |-> RootUid, rgid |-> g, egid |-> g, sgid |-> g] :
        u \in LaunchUids, g \in LaunchGids }

\* the pid of the init process of a pid namespace
InitPid == 1

\* the state when Start is called: main has checked the pid and the
\* effective uid and loaded the configuration
InitWith(catalogs, signals, requests) ==
    /\ cfg \in catalogs
    /\ cred \in EntryCreds
    /\ env = {}
    /\ procs = <<>>
    /\ serviceCmds = [s \in DOMAIN cfg |-> 0]
    /\ serviceStatus = [s \in DOMAIN cfg |-> NoStatus]
    /\ serviceOutputs = [s \in DOMAIN cfg |-> 0]
    /\ restartChan = <<>>
    /\ mainPc = "start"
    /\ toStart = DOMAIN cfg
    /\ waiters = {}
    /\ smPc = "notstarted"
    /\ smSvc = ""
    /\ reaperUp = FALSE
    /\ listener = "pending"
    /\ socketFile = FALSE
    /\ sigChan = <<>>
    /\ sigLeft = signals
    /\ shutdownAsked = FALSE
    /\ reqLeft = requests
    /\ client = NoClient
    /\ ipc = [pc |-> "idle", pid |-> 0]
    /\ self = [pid |-> InitPid, file |-> cfg]
    /\ gate = NoCall
    /\ stop = NoStop

\* a run with any catalog in which one signal is delivered to pid 1 and one
\* request is sent on the control channel
Init == InitWith(Catalogs, 1, 1)

\* ------------------------------------------------------ Start (main task)
\* one iteration of the start loop: startService(svc)
StartService(s) ==
    /\ mainPc = "start"
    /\ s \in toStart
    /\ toStart' = toStart \ {s}
    /\ \E o \in SpawnFaults(env) :
         /\ env' = Charge(env, o)
         /\ IF Spawned(cred, o)
            THEN /\ Len(procs) < MaxChildren
                 /\ LET pid == Len(procs) + 1 IN
                   /\ procs' = Append(procs, NewProc(s, TRUE, TRUE))
                   /\ serviceCmds' = [serviceCmds EXCEPT ![s] = pid]
                   /\ serviceOutputs' = [serviceOutputs EXCEPT ![s] = pid]
                   /\ serviceStatus' = [serviceStatus EXCEPT ![s] =
                          [exists |-> TRUE, running |-> TRUE, pid |-> pid,
                           startTime |-> pid, restarts |-> 0]]
            ELSE UNCHANGED <<procs, serviceCmds, serviceOutputs, serviceStatus>>
    /\ UNCHANGED <<cfg, self, gate, stop, reqLeft, client, sigChan, sigLeft, shutdownAsked, cred, restartChan, mainPc,
                   waiters, smPc, smSvc, reaperUp, listener, socketFile, ipc>>

\* go d.serviceManager(ctx); go d.globalReaper(ctx)
StartTasks ==
    /\ mainPc = "start"
    /\ toStart = {}
    /\ mainPc' = "drop"
    /\ smPc' = "idle"
    /\ reaperUp' = TRUE
    /\ UNCHANGED <<cfg, self, gate, stop, reqLeft, client, sigChan, sigLeft, shutdownAsked, cred, env, procs, serviceCmds, serviceStatus, serviceOutputs,
                   restartChan, toStart, waiters, smSvc,
                   listener, socketFile, ipc>>

\* the first dropPrivileges; an error makes Start return it
StartDrop ==
    /\ mainPc = "drop"
    /\ \E f \in DropFaults(env) :
         LET res == dropPrivileges(cred, f) IN
           /\ cred' = res.cred
           /\ env' = Charge(env, f)
           /\ mainPc' = IF res.err = "nil" THEN "loop" ELSE "fatal"
    /\ UNCHANGED <<cfg, self, gate, stop, reqLeft, client, sigChan, sigLeft, shutdownAsked, procs, serviceCmds, serviceStatus, serviceOutputs, restartChan,
                   toStart, waiters, smPc, smSvc, reaperUp,
                   listener, socketFile, ipc>>

\* ------------------------------------------------ environment: children
\* a running child terminates with exit status code
ChildExit(p, code) ==
    /\ Alive
    /\ p \in Pids
    /\ procs[p].st = "running"
    /\ procs' = [procs EXCEPT ![p].st = "zombie", ![p].code = code]
    /\ UNCHANGED <<cfg, self, gate, stop, reqLeft, client, sigChan, sigLeft, shutdownAsked, cred, env, serviceCmds, serviceStatus, serviceOutputs,
                   restartChan, mainPc, toStart, waiters,
                   smPc, smSvc, reaperUp, listener, socketFile, ipc>>

\* ------------------------------------------------------------- the reaper
\* globalReaper: Wait4(-1, WNOHANG) collects one terminated child
ReaperWait(p) ==
    /\ Alive
    /\ reaperUp
    /\ p \in Pids
    /\ procs[p].st = "zombie"
    /\ procs' = [procs EXCEPT ![p].st = "reaped", ![p].waited = @ + 1]
    /\ UNCHANGED <<cfg, self, gate, stop, reqLeft, client, sigChan, sigLeft, shutdownAsked, cred, env, serviceCmds, serviceStatus, serviceOutputs,
                   restartChan, mainPc, toStart, waiters,
                   smPc, smSvc, reaperUp, listener, socketFile, ipc>>

\* ------------------------------------------------------------ the monitors
\* shouldRestart of monitorService: err is the error cmd.Wait() returned
ShouldRestart(policy, err) ==
    IF err THEN policy \in {RestartAlways, RestartOnFailure}
    ELSE policy = RestartAlways

\* the monitor's position after it has handled the exit
AfterExit(d, status, err) ==
    IF d.oneshot
    THEN IF d.interval > 0 THEN "sleep" ELSE "done"
    ELSE IF ~ShouldRestart(d.restart, err) THEN "done"
    ELSE IF ~status.exists THEN "sleep"
    ELSE IF d.maxRestarts > 0 /\ status.restarts >= d.maxRestarts THEN "done"
    ELSE "incr"

\* (variant: the caller takes every return of wait for a collection)
CollectsAnyReturn(proc) == proc.st \in {"zombie", "reaped"}

\* wait on a child returns its status to the caller that finds it terminated
\* and not yet collected; every other caller gets an error
Collects(proc) == proc.st = "zombie"

\* (variant: the record of an exited child is emptied)
ExitRecordedClearsPid(status) == [status EXCEPT !.running = FALSE, !.pid = 0, !.startTime = 0]

\* status.Running = false
ExitRecorded(status) == [status EXCEPT !.running = FALSE]

\* monitorService up to the restart-count check: cmd.Wait() returns, either
\* with the child's status (this task collected the exit) or with an error
\* (another task collected it first); the capture registered under the name
\* is stopped and the running flag cleared
MonitorWait(p) ==
    /\ Alive
    /\ p \in Pids
    /\ procs[p].mon = "wait"
    /\ procs[p].st \in {"zombie", "reaped"}
    /\ LET s == procs[p].svc
           mine == Collects(procs[p])
           err == IF mine THEN procs[p].code # 0 ELSE TRUE
           status == serviceStatus[s]
           ps1 == [procs EXCEPT ![p].st = "reaped",
                                ![p].waited = IF mine THEN @ + 1 ELSE @,
                                ![p].code = 0,
                                ![p].seen = IF AfterExit(cfg[s], status, err) = "incr"
                                            THEN status.restarts ELSE 0,
                                ![p].mon = AfterExit(cfg[s], status, err)]
       IN  /\ procs' = StopCapture(ps1, serviceOutputs, s)
           /\ serviceOutputs' = [serviceOutputs EXCEPT ![s] = 0]
           /\ serviceStatus' = IF status.exists
                               THEN [serviceStatus EXCEPT ![s] = ExitRecorded(status)]
                               ELSE serviceStatus
    /\ UNCHANGED <<cfg, self, gate, stop, reqLeft, client, sigChan, sigLeft, shutdownAsked, cred, env, serviceCmds, restartChan, mainPc,
                   toStart, waiters, smPc, smSvc, reaperUp, listener, socketFile, ipc>>

\* status.Restarts++ : an unsynchronised read-modify-write; the value written
\* is one more than the value read at the check or than the current value
MonitorIncr(p) ==
    /\ Alive
    /\ p \in Pids
    /\ procs[p].mon = "incr"
    /\ \E base \in {procs[p].seen, serviceStatus[procs[p].svc].restarts} :
         serviceStatus' = [serviceStatus EXCEPT ![procs[p].svc].restarts = base + 1]
    /\ procs' = [procs EXCEPT ![p].mon = "sleep", ![p].seen = 0]
    /\ UNCHANGED <<cfg, self, gate, stop, reqLeft, client, sigChan, sigLeft, shutdownAsked, cred, env, serviceCmds, serviceOutputs, restartChan,
                   mainPc, toStart, waiters, smPc, smSvc, reaperUp,
                   listener, socketFile, ipc>>

\* the cases of select { case d.restartChan <- svc: ; case <-d.ctx.Done(): }
\* that are ready; the select takes any one of them
EnqueueWays(chan, done) ==
    (IF Len(chan) < RestartChanCap THEN {"send"} ELSE {})
      \cup (IF done THEN {"done"} ELSE {})

\* after the sleep: the select on restartChan and d.ctx.Done();
\* d.cancel() is called by Stop() only, which no task of the daemon calls
MonitorEnqueue(p) ==
    /\ Alive
    /\ p \in Pids
    /\ procs[p].mon = "sleep"
    /\ \E way \in EnqueueWays(restartChan, stop.done) :
         restartChan' = IF way = "send" THEN Append(restartChan, procs[p].svc)
                        ELSE restartChan
    /\ procs' = [procs EXCEPT ![p].mon = "done"]
    /\ UNCHANGED <<cfg, self, gate, stop, reqLeft, client, sigChan, sigLeft, shutdownAsked, cred, env, serviceCmds, serviceStatus, serviceOutputs,
                   mainPc, toStart, waiters, smPc, smSvc, reaperUp,
                   listener, socketFile, ipc>>

\* ------------------------------------------------------ the restart worker
\* (variant: the error of elevatePrivileges is logged and the iteration
\* goes on)
ManagerReceiveIgnoresError ==
    /\ Alive
    /\ smPc = "idle"
    /\ Len(procs) < MaxChildren
    /\ restartChan # <<>>
    /\ restartChan' = Tail(restartChan)
    /\ \E f \in ElevateFaults(env) :
         LET res == elevatePrivileges(cred, f) IN
           /\ cred' = res.cred
           /\ env' = Charge(env, f)
           /\ smPc' = "elevated" /\ smSvc' = Head(restartChan)
           /\ gate' = IF res.err = "nil" THEN gate
                      ELSE [op |-> "elevate", fault |-> f, pre |-> cred, err |-> res.err]
    /\ UNCHANGED <<cfg, self, stop, reqLeft, client, sigChan, sigLeft, shutdownAsked, procs, serviceCmds, serviceStatus, serviceOutputs,
                   mainPc, toStart, waiters, reaperUp, listener,
                   socketFile, ipc>>

\* serviceManager: receive a request and elevate; on error continue; the
\* failed call is kept on record
ManagerReceive ==
    /\ Alive
    /\ smPc = "idle"
    /\ Len(procs) < MaxChildren
    /\ restartChan # <<>>
    /\ restartChan' = Tail(restartChan)
    /\ \E f \in ElevateFaults(env) :
         LET res == elevatePrivileges(cred, f) IN
           /\ cred' = res.cred
           /\ env' = Charge(env, f)
           /\ IF res.err = "nil"
              THEN smPc' = "elevated" /\ smSvc' = Head(restartChan) /\ gate' = gate
              ELSE /\ smPc' = "idle" /\ smSvc' = ""
                   /\ gate' = [op |-> "elevate", fault |-> f, pre |-> cred, err |-> res.err]
    /\ UNCHANGED <<cfg, self, stop, reqLeft, client, sigChan, sigLeft, shutdownAsked, procs, serviceCmds, serviceStatus, serviceOutputs,
                   mainPc, toStart, waiters, reaperUp, listener,
                   socketFile, ipc>>

\* serviceManager, the rest of the iteration: lookup, pipes, cmd.Start(),
\* table update, dropPrivileges, and the monitor unless the drop failed
ManagerSpawn ==
    /\ Alive
    /\ smPc = "elevated"
    /\ smPc' = "idle"
    /\ smSvc' = ""
    /\ \E o \in SpawnFaults(env), f \in DropFaults(env) :
         LET res == dropPrivileges(cred, f)
             pid == Len(procs) + 1
             old == serviceStatus[smSvc]
         IN  /\ o = "none" \/ f = "none"
             /\ cred' = res.cred
             /\ env' = Charge(Charge(env, o), f)
             /\ IF Spawned(cred, o)
                THEN /\ procs' = Append(procs, NewProc(smSvc, res.err = "nil", FALSE))
                     /\ serviceCmds' = [serviceCmds EXCEPT ![smSvc] = pid]
                     /\ serviceOutputs' = [serviceOutputs EXCEPT ![smSvc] = pid]
                     /\ serviceStatus' = [serviceStatus EXCEPT ![smSvc] =
                            [exists |-> TRUE, running |-> TRUE, pid |-> pid, startTime |-> pid,
                             restarts |-> IF old.exists THEN old.restarts ELSE 0]]
                ELSE UNCHANGED <<procs, serviceCmds, serviceOutputs, serviceStatus>>
    /\ UNCHANGED <<cfg, self, gate, stop, reqLeft, client, sigChan, sigLeft, shutdownAsked, restartChan, mainPc, toStart, waiters,
                   reaperUp, listener, socketFile, ipc>>

\* --------------------------------------------------- signal dispatcher
\* handleSignals receives from sigChan only while it is not inside a handler

\* (variant: the socket is removed when shutdownServices returns)
SocketRemovedOnReturn(pc, file) == IF pc \in {"sd_wait", "sd_sleep"} THEN FALSE ELSE file

\* os.Remove(SocketPath) is the first statement of shutdownServices
SocketAfterShutdownStep(pc, file) == IF pc = "loop" THEN FALSE ELSE file

\* signal.Notify(sigChan, ...) is in force and the process runs
Notified == mainPc \notin {"entry", "refused", "start", "drop", "fatal", "returned"}

\* os/signal delivers with a non-blocking send: a signal that finds sigChan
\* full is dropped
Delivered(chan, sig) == IF Len(chan) < SigChanCap THEN Append(chan, sig) ELSE chan

\* the environment sends sig to pid 1
Deliver(sig) ==
    /\ Notified
    /\ sigLeft > 0
    /\ CanInput(env \ {"signal"}, "signal")
    /\ sigLeft' = sigLeft - 1
    /\ env' = env \cup {"signal"}
    /\ sigChan' = Delivered(sigChan, sig)
    /\ shutdownAsked' = (shutdownAsked \/ sig \in ShutdownSignals)
    /\ UNCHANGED <<cfg, self, gate, stop, reqLeft, client, cred, procs, serviceCmds, serviceStatus, serviceOutputs,
                   restartChan, mainPc, toStart, waiters, smPc, smSvc,
                   reaperUp, listener, socketFile, ipc>>

\* case sig := <-sigChan
Received(sig) == mainPc = "loop" /\ sigChan # <<>> /\ Head(sigChan) = sig

\* handleSignals, case TERM/INT/QUIT: shutdownServices up to the elevation:
\* the socket is removed and every registered capture stopped
HandleShutdown(sig) ==
    /\ Received(sig)
    /\ sig \in ShutdownSignals
    /\ sigChan' = Tail(sigChan)
    /\ mainPc' = "sd_begin"
    /\ socketFile' = SocketAfterShutdownStep(mainPc, socketFile)
    /\ procs' = StopAllCaptures(procs, serviceOutputs)
    /\ serviceOutputs' = [s \in Services |-> 0]
    /\ UNCHANGED <<cfg, self, gate, stop, reqLeft, client, sigLeft, shutdownAsked, cred, env, serviceCmds, serviceStatus, restartChan, toStart,
                   waiters, smPc, smSvc, reaperUp, listener, ipc>>

\* shutdownServices: elevatePrivileges; on error shutdownServices returns
\* and so does handleSignals
ShutdownElevate ==
    /\ mainPc = "sd_begin"
    /\ \E f \in ElevateFaults(env) :
         LET res == elevatePrivileges(cred, f) IN
           /\ cred' = res.cred
           /\ env' = Charge(env, f)
           /\ mainPc' = IF res.err = "nil" THEN "sd_term" ELSE "returned"
    /\ socketFile' = SocketAfterShutdownStep(mainPc, socketFile)
    /\ UNCHANGED <<cfg, self, gate, stop, reqLeft, client, sigChan, sigLeft, shutdownAsked, procs, serviceCmds, serviceStatus, serviceOutputs, restartChan,
                   toStart, waiters, smPc, smSvc, reaperUp, listener, ipc>>

\* the children of the handles in getAllServiceCmds() that sig reaches
Signalled(c) == { p \in Pids : (\E n \in Services : serviceCmds[n] = p) /\ SignalOk(p, c) }

\* shutdownServices: SIGTERM to every recorded handle; the children whose
\* signal was delivered are waited for
ShutdownTerm ==
    /\ mainPc = "sd_term"
    /\ mainPc' = "sd_wait"
    /\ waiters' = Signalled(cred)
    /\ procs' = [p \in DOMAIN procs |->
                   IF p \in Signalled(cred) THEN [procs[p] EXCEPT !.term = TRUE] ELSE procs[p]]
    /\ socketFile' = SocketAfterShutdownStep(mainPc, socketFile)
    /\ UNCHANGED <<cfg, self, gate, stop, reqLeft, client, sigChan, sigLeft, shutdownAsked, cred, env, serviceCmds, serviceStatus, serviceOutputs, restartChan,
                   toStart, smPc, smSvc, reaperUp, listener, ipc>>

\* one of the c.Wait() goroutines of shutdownServices returns: it has
\* collected its child, or found it collected by another task
ShutdownWait(p) ==
    /\ mainPc \in {"sd_wait", "sd_sleep"}
    /\ p \in waiters
    /\ procs[p].st \in {"zombie", "reaped"}
    /\ waiters' = waiters \ {p}
    /\ procs' = IF Collects(procs[p])
                THEN [procs EXCEPT ![p].st = "reaped", ![p].waited = @ + 1]
                ELSE procs
    /\ UNCHANGED <<cfg, self, gate, stop, reqLeft, client, sigChan, sigLeft, shutdownAsked, cred, env, serviceCmds, serviceStatus, serviceOutputs,
                   restartChan, mainPc, toStart,
                   smPc, smSvc, reaperUp, listener, socketFile, ipc>>

\* case <-done: every c.Wait() has returned; shutdownServices returns
ShutdownDone ==
    /\ mainPc = "sd_wait"
    /\ waiters = {}
    /\ mainPc' = "returned"
    /\ socketFile' = SocketAfterShutdownStep(mainPc, socketFile)
    /\ UNCHANGED <<cfg, self, gate, stop, reqLeft, client, sigChan, sigLeft, shutdownAsked, cred, env, procs, serviceCmds, serviceStatus, serviceOutputs,
                   restartChan, toStart, waiters, smPc, smSvc,
                   reaperUp, listener, ipc>>

\* (variant: after the kills the wait is resumed instead of left)
ShutdownTimeoutKeepsWaiting ==
    /\ mainPc = "sd_wait"
    /\ mainPc' = "sd_wait"
    /\ procs' = [p \in DOMAIN procs |->
                   IF p \in Signalled(cred) THEN [procs[p] EXCEPT !.kill = TRUE] ELSE procs[p]]
    /\ socketFile' = SocketAfterShutdownStep(mainPc, socketFile)
    /\ UNCHANGED <<cfg, self, gate, stop, reqLeft, client, sigChan, sigLeft, shutdownAsked, cred, env, serviceCmds, serviceStatus, serviceOutputs, restartChan,
                   toStart, waiters, smPc, smSvc, reaperUp,
                   listener, ipc>>

\* case <-time.After(shutdownTimeout): Kill() every recorded handle
ShutdownTimeout ==
    /\ mainPc = "sd_wait"
    /\ mainPc' = "sd_sleep"
    /\ procs' = [p \in DOMAIN procs |->
                   IF p \in Signalled(cred) THEN [procs[p] EXCEPT !.kill = TRUE] ELSE procs[p]]
    /\ socketFile' = SocketAfterShutdownStep(mainPc, socketFile)
    /\ UNCHANGED <<cfg, self, gate, stop, reqLeft, client, sigChan, sigLeft, shutdownAsked, cred, env, serviceCmds, serviceStatus, serviceOutputs, restartChan,
                   toStart, waiters, smPc, smSvc, reaperUp,
                   listener, ipc>>

\* the 2 s grace period ends; shutdownServices and handleSignals return
ShutdownGrace ==
    /\ mainPc = "sd_sleep"
    /\ mainPc' = "returned"
    /\ socketFile' = SocketAfterShutdownStep(mainPc, socketFile)
    /\ UNCHANGED <<cfg, self, gate, stop, reqLeft, client, sigChan, sigLeft, shutdownAsked, cred, env, procs, serviceCmds, serviceStatus, serviceOutputs,
                   restartChan, toStart, waiters, smPc, smSvc,
                   reaperUp, listener, ipc>>

\* handleSignals, case HUP/USR1/USR2: forwardSignalToServices elevates
HandleForward(sig) ==
    /\ Received(sig)
    /\ sig \in ForwardSignals
    /\ sigChan' = Tail(sigChan)
    /\ \E f \in ElevateFaults(env) :
         LET res == elevatePrivileges(cred, f) IN
           /\ cred' = res.cred
           /\ env' = Charge(env, f)
           /\ mainPc' = IF res.err = "nil" THEN "fwd" ELSE "loop"
    /\ UNCHANGED <<cfg, self, gate, stop, reqLeft, client, sigLeft, shutdownAsked, procs, serviceCmds, serviceStatus, serviceOutputs, restartChan,
                   toStart, waiters, smPc, smSvc, reaperUp, listener, socketFile, ipc>>

\* forwardSignalToServices: the loop over getAllServiceCmds(), in which a
\* failed Signal is logged and the loop goes on, and the deferred
\* dropPrivileges, whose error is only logged
ForwardSend ==
    /\ mainPc = "fwd"
    /\ mainPc' = "loop"
    /\ procs' = [p \in DOMAIN procs |->
                   IF p \in Signalled(cred) THEN [procs[p] EXCEPT !.fwd = TRUE] ELSE procs[p]]
    /\ \E f \in DropFaults(env) :
         /\ cred' = dropPrivileges(cred, f).cred
         /\ env' = Charge(env, f)
    /\ UNCHANGED <<cfg, self, gate, stop, reqLeft, client, sigChan, sigLeft, shutdownAsked, serviceCmds, serviceStatus, serviceOutputs, restartChan,
                   toStart, waiters, smPc, smSvc, reaperUp, listener,
                   socketFile, ipc>>

\* handleSignals, cases CHLD and PIPE: nothing to do
HandleIgnored(sig) ==
    /\ Received(sig)
    /\ sig \in IgnoredSignals
    /\ sigChan' = Tail(sigChan)
    /\ UNCHANGED <<cfg, self, gate, stop, reqLeft, client, sigLeft, shutdownAsked, cred, env, procs, serviceCmds, serviceStatus, serviceOutputs,
                   restartChan, mainPc, toStart, waiters, smPc, smSvc,
                   reaperUp, listener, socketFile, ipc>>

\* ------------------------------------------------------ control channel
\* startIPCServer, run as a goroutine by Start: remove a stale socket, listen
StartIPCServer(ok) ==
    /\ Alive
    /\ listener = "pending"
    /\ ok \/ CanInput(env, "fault")
    /\ env' = IF ok THEN env ELSE env \cup {"fault"}
    /\ listener' = IF ok THEN "listening" ELSE "failed"
    /\ socketFile' = ok
    /\ UNCHANGED <<cfg, self, gate, stop, reqLeft, client, sigChan, sigLeft, shutdownAsked, cred, procs, serviceCmds, serviceStatus, serviceOutputs,
                   restartChan, mainPc, toStart, waiters,
                   smPc, smSvc, reaperUp, ipc>>

\* a client can connect: the listener accepts and the path exists
Connectable == Alive /\ listener = "listening" /\ socketFile

RequestNames == ServiceNames \cup {"", "ghost"}

\* a client may send one more request
CanRequest == reqLeft > 0 /\ CanInput(env \ {"request"}, "request")

\* (variant: the send waits for room in the queue instead of giving up)
RestartAcceptedWhenFull(name, chan) == name \in Services

\* handleIPCRequest, case "restart": a non-blocking send on restartChan
RestartAccepted(name, chan) == name \in Services /\ Len(chan) < RestartChanCap

\* the IPCResponse of "restart": "ok" is Success true, the others are the
\* messages sent with Success false
RestartResponse(name, chan) ==
    IF name = "" THEN "required"
    ELSE IF name \notin Services THEN "not found"
    ELSE IF RestartAccepted(name, chan) THEN "ok"
    ELSE "full"

\* the handler of "restart"; a client that has a further request to send
\* notes the service and the pid it had
IPCRestart(name) ==
    /\ Connectable
    /\ CanRequest
    /\ reqLeft' = reqLeft - 1
    /\ env' = env \cup {"request"}
    /\ restartChan' = IF RestartAccepted(name, restartChan)
                      THEN Append(restartChan, name) ELSE restartChan
    /\ client' = IF RestartAccepted(name, restartChan) /\ reqLeft > 1
                 THEN [client EXCEPT !.asked = name, !.prePid = serviceStatus[name].pid,
                                     !.restart = RestartResponse(name, restartChan)]
                 ELSE [client EXCEPT !.restart = RestartResponse(name, restartChan)]
    /\ UNCHANGED <<cfg, self, gate, stop, sigChan, sigLeft, shutdownAsked, cred, procs, serviceCmds, serviceStatus, serviceOutputs,
                   mainPc, toStart, waiters, smPc, smSvc,
                   reaperUp, listener, socketFile, ipc>>

\* the signal switch of handleIPCRequest
ParseSignal(tok) ==
    CASE tok \in {"HUP", "SIGHUP"} -> "HUP"
      [] tok \in {"TERM", "SIGTERM"} -> "TERM"
      [] tok \in {"KILL", "SIGKILL"} -> "KILL"
      [] tok \in {"USR1", "SIGUSR1"} -> "USR1"
      [] tok \in {"USR2", "SIGUSR2"} -> "USR2"
      [] OTHER -> "invalid"

SignalTokens == {"HUP", "SIGHUP", "TERM", "SIGTERM", "KILL", "SIGKILL",
                 "USR1", "SIGUSR1", "USR2", "SIGUSR2", "INT", ""}

\* what the checks that precede the elevation make of a "signal" request:
\* the failure response they encode, or "elevate" when the request passes
SignalReplyAnyToken(name, tok, cmds) ==
    IF name = "" \/ tok = "" THEN "required"
    ELSE IF name \notin DOMAIN cmds \/ cmds[name] = 0 THEN "not running"
    ELSE "elevate"

SignalReply(name, tok, cmds) ==
    IF name = "" \/ tok = "" THEN "required"
    ELSE IF name \notin DOMAIN cmds \/ cmds[name] = 0 THEN "not running"
    ELSE IF ParseSignal(tok) = "invalid" THEN "unsupported"
    ELSE "elevate"

\* the request passes the checks that precede the elevation
SignalRequestValid(name, tok) == SignalReply(name, tok, serviceCmds) = "elevate"

\* handleIPCRequest, case "signal", up to the elevation
IPCSignalBegin(name, tok) ==
    /\ Connectable
    /\ ipc.pc = "idle"
    /\ CanRequest
    /\ reqLeft' = reqLeft - 1
    /\ IF SignalRequestValid(name, tok)
       THEN \E f \in ElevateFaults(env \cup {"request"}) :
              LET res == elevatePrivileges(cred, f) IN
                /\ cred' = res.cred
                /\ env' = Charge(env \cup {"request"}, f)
                /\ ipc' = IF res.err = "nil"
                          THEN [pc |-> "elevated", pid |-> serviceCmds[name]]
                          ELSE ipc
                /\ client' = IF res.err = "nil" THEN client
                             ELSE [client EXCEPT !.signal = "elevate failed"]
       ELSE /\ env' = env \cup {"request"}
            /\ client' = [client EXCEPT !.signal = SignalReply(name, tok, serviceCmds)]
            /\ UNCHANGED <<cred, ipc>>
    /\ UNCHANGED <<cfg, self, gate, stop, sigChan, sigLeft, shutdownAsked, procs, serviceCmds, serviceStatus, serviceOutputs, restartChan,
                   mainPc, toStart, waiters, smPc, smSvc,
                   reaperUp, listener, socketFile>>

\* handleIPCRequest, case "signal": cmd.Process.Signal(sig), then
\* dropPrivileges, whose error is only logged
IPCSignalSend ==
    /\ Alive
    /\ ipc.pc = "elevated"
    /\ ipc' = [pc |-> "idle", pid |-> 0]
    /\ \E f \in DropFaults(env) :
         /\ cred' = dropPrivileges(cred, f).cred
         /\ env' = Charge(env, f)
    /\ UNCHANGED <<cfg, self, gate, stop, reqLeft, client, sigChan, sigLeft, shutdownAsked, procs, serviceCmds, serviceStatus, serviceOutputs, restartChan,
                   mainPc, toStart, waiters, smPc, smSvc,
                   reaperUp, listener, socketFile>>

\* the status entries the handler of a read request obtains: "list" and
\* "status" without a name call getAllServiceStatus, "status name" calls
\* getServiceStatus(name)
ReadNames(cmd, name) ==
    IF cmd = "list" \/ name = ""
    THEN { n \in Services : serviceStatus[n].exists }
    ELSE { n \in Services : n = name /\ serviceStatus[n].exists }

\* handleIPCRequest, cases "list" and "status": the handler obtains the
\* entries under the read lock; they are pointers into the status table
IPCReadBegin(cmd, name) ==
    /\ Connectable
    /\ client.pc = "idle"
    /\ CanRequest
    /\ reqLeft' = reqLeft - 1
    /\ env' = env \cup {"request"}
    /\ client' = [client EXCEPT !.pc = "held", !.cmd = cmd,
                                !.after = (client.asked # "" /\ name = client.asked),
                                !.names = ReadNames(cmd, name),
                                !.table = serviceStatus,
                                !.reply = <<>>,
                                !.stable = FALSE,
                                !.prev = [cmd |-> client.cmd, table |-> client.table,
                                          reply |-> client.reply, stable |-> client.stable]]
    /\ UNCHANGED <<cfg, self, gate, stop, sigChan, sigLeft, shutdownAsked, cred, procs, serviceCmds,
                   serviceStatus, serviceOutputs, restartChan, mainPc, toStart, waiters,
                   smPc, smSvc, reaperUp, listener, socketFile, ipc>>

\* (variant: the response is built by taking the entries out of the table)
IPCReadEncodeTakesEntries ==
    /\ Alive
    /\ client.pc = "held"
    /\ client' = [client EXCEPT !.pc = "idle",
                                !.reply = StatusOf(serviceStatus, client.names),
                                !.stable = (serviceStatus = client.table)]
    /\ serviceStatus' = [n \in Services |->
                            IF n \in client.names
                            THEN NoStatus
                            ELSE serviceStatus[n]]
    /\ UNCHANGED <<cfg, self, gate, stop, reqLeft, sigChan, sigLeft, shutdownAsked, cred, env, procs,
                   serviceCmds, serviceOutputs, restartChan, mainPc, toStart,
                   waiters, smPc, smSvc, reaperUp, listener, socketFile, ipc>>

\* encoder.Encode(response): the entries are read through the pointers, as
\* they stand now
IPCReadEncode ==
    /\ Alive
    /\ client.pc = "held"
    /\ client' = [client EXCEPT !.pc = "idle",
                                !.reply = StatusOf(serviceStatus, client.names),
                                !.stable = (serviceStatus = client.table)]
    /\ UNCHANGED <<cfg, self, gate, stop, reqLeft, sigChan, sigLeft, shutdownAsked, cred, env, procs,
                   serviceCmds, serviceStatus, serviceOutputs, restartChan, mainPc, toStart,
                   waiters, smPc, smSvc, reaperUp, listener, socketFile, ipc>>

\* ------------------------------------------------------------------ Next
Next ==
    \/ \E s \in ServiceNames : StartService(s)
    \/ StartTasks
    \/ StartDrop
    \/ \E p \in 1..MaxChildren, code \in {0, 1} : ChildExit(p, code)
    \/ \E p \in 1..MaxChildren : ReaperWait(p)
    \/ \E p \in 1..MaxChildren : MonitorWait(p)
    \/ \E p \in 1..MaxChildren : MonitorIncr(p)
    \/ \E p \in 1..MaxChildren : MonitorEnqueue(p)
    \/ ManagerReceive
    \/ ManagerSpawn
    \/ \E sig \in SentSignals : Deliver(sig)
    \/ \E sig \in Signals : HandleShutdown(sig)
    \/ ShutdownElevate
    \/ ShutdownTerm
    \/ \E p \in 1..MaxChildren : ShutdownWait(p)
    \/ ShutdownDone
    \/ ShutdownTimeout
    \/ ShutdownGrace
    \/ \E sig \in Signals : HandleForward(sig)
    \/ ForwardSend
    \/ \E sig \in Signals : HandleIgnored(sig)
    \/ \E ok \in BOOLEAN : StartIPCServer(ok)
    \/ \E name \in RequestNames : IPCRestart(name)
    \/ \E name \in RequestNames, tok \in SignalTokens : IPCSignalBegin(name, tok)
    \/ IPCSignalSend

Spec == Init /\ [][Next]_vars

TypeOK ==
    /\ env \subseteq InputKinds /\ Cardinality(env) <= MaxEnv
    /\ Len(procs) <= MaxChildren
    /\ Len(restartChan) <= RestartChanCap
    /\ Len(sigChan) <= SigChanCap

\* the steps of the main goroutine inside shutdownServices
ShutdownStep ==
    ShutdownElevate \/ ShutdownTerm \/ ShutdownDone \/ ShutdownTimeout \/ ShutdownGrace

\* the catalogs of the runs checked for termination of the shutdown: one
\* service that is restarted and two services that are not
FairCatalogs == { c \in Catalogs : \A s \in DOMAIN c : ~c[s].oneshot /\ c[s].restart # RestartOnFailure }

FairInit == InitWith(FairCatalogs, 1, 1)

\* the main goroutine keeps running and the timers of shutdownServices fire
FairSpec == FairInit /\ [][Next]_vars /\ WF_vars(ShutdownStep)

\* ------------------------------------------------ runs with several signals
\* two services that are never restarted, no control-channel client, and up
\* to MaxSignals signals delivered to pid 1
SigCatalogs == { Catalog2(Descriptor(RestartNever, 0, FALSE, 0), Descriptor(RestartNever, 0, FALSE, 0)) }

SigInit == InitWith(SigCatalogs, MaxSignals, 0)

SigNext ==
    \/ \E s \in ServiceNames : StartService(s)
    \/ StartTasks
    \/ StartDrop
    \/ \E ok \in BOOLEAN : StartIPCServer(ok)
    \/ \E p \in 1..MaxChildren, code \in {0, 1} : ChildExit(p, code)
    \/ \E p \in 1..MaxChildren : ReaperWait(p)
    \/ \E p \in 1..MaxChildren : MonitorWait(p)
    \/ \E sig \in Signals : Deliver(sig)
    \/ \E sig \in Signals : HandleShutdown(sig)
    \/ \E sig \in Signals : HandleForward(sig)
    \/ ForwardSend
    \/ \E sig \in Signals : HandleIgnored(sig)
    \/ ShutdownElevate
    \/ ShutdownTerm
    \/ \E p \in 1..MaxChildren : ShutdownWait(p)
    \/ ShutdownDone
    \/ ShutdownTimeout
    \/ ShutdownGrace

SigSpec == SigInit /\ [][SigNext]_vars

\* ------------------------------------------- runs with several requests
\* one service that only a request restarts, no signal delivered to pid 1,
\* and up to MaxRequests requests on the control channel
IpcCatalogs == { Catalog1(Descriptor(RestartNever, 0, FALSE, 0)) }

IpcInit == InitWith(IpcCatalogs, 0, MaxRequests)

IpcNext ==
    \/ \E s \in ServiceNames : StartService(s)
    \/ StartTasks
    \/ StartDrop
    \/ \E ok \in BOOLEAN : StartIPCServer(ok)
    \/ \E p \in 1..MaxChildren, code \in {0, 1} : ChildExit(p, code)
    \/ \E p \in 1..MaxChildren : ReaperWait(p)
    \/ \E p \in 1..MaxChildren : MonitorWait(p)
    \/ ManagerReceive
    \/ ManagerSpawn
    \/ \E name \in RequestNames : IPCRestart(name)
    \/ \E cmd \in {"list", "status"}, name \in RequestNames : IPCReadBegin(cmd, name)
    \/ IPCReadEncode

IpcSpec == IpcInit /\ [][IpcNext]_vars

\* -------------------------------------- runs that fill the restart queue
\* one service that is restarted whenever it stops, no signal delivered to
\* pid 1, and up to MaxRequests "restart" requests on the control channel;
\* the children fail, an exit status the restart policy does not tell from 0
QueueCatalogs == { Catalog1(Descriptor(RestartAlways, 0, FALSE, 0)) }

QueueInit == InitWith(QueueCatalogs, 0, MaxRequests)

QueueNext ==
    \/ \E s \in ServiceNames : StartService(s)
    \/ StartTasks
    \/ StartDrop
    \/ \E ok \in BOOLEAN : StartIPCServer(ok)
    \/ \E p \in 1..MaxChildren : ChildExit(p, 1)
    \/ \E p \in 1..MaxChildren : ReaperWait(p)
    \/ \E p \in 1..MaxChildren : MonitorWait(p)
    \/ \E p \in 1..MaxChildren : MonitorIncr(p)
    \/ \E p \in 1..MaxChildren : MonitorEnqueue(p)
    \/ ManagerReceive
    \/ ManagerSpawn
    \/ \E name \in RequestNames : IPCRestart(name)

QueueSpec == QueueInit /\ [][QueueNext]_vars

\* --------------------------------------------------- runs from the entry
\* the credentials of a process started by an ordinary user from a binary
\* that is not setuid
UserCreds ==
    { [ruid |-> u, euid |-> u, suid |-> u, rgid |-> g, egid |-> g, sgid |-> g] :
        u \in LaunchUids, g \in LaunchGids }

\* main is entered in daemon mode: no command on the command line and no
\* daemon answering; nothing is loaded, opened or spawned yet
EntryInit ==
    /\ self \in [pid : {InitPid, InitPid + 1}, file : Catalogs]
    /\ cred \in EntryCreds \cup UserCreds
    /\ cfg = <<>>
    /\ env = {}
    /\ procs = <<>>
    /\ serviceCmds = <<>>
    /\ serviceStatus = <<>>
    /\ serviceOutputs = <<>>
    /\ restartChan = <<>>
    /\ mainPc = "entry"
    /\ toStart = {}
    /\ waiters = {}
    /\ smPc = "notstarted"
    /\ smSvc = ""
    /\ reaperUp = FALSE
    /\ listener = "none"
    /\ socketFile = FALSE
    /\ sigChan = <<>>
    /\ sigLeft = 0
    /\ shutdownAsked = FALSE
    /\ reqLeft = 0
    /\ client = NoClient
    /\ ipc = [pc |-> "idle", pid |-> 0]
    /\ gate = NoCall
    /\ stop = NoStop

\* (variant: main checks the pid only)
RefusedOnPidOnly == self.pid # InitPid

\* main: os.Getpid() != 1 -> os.Exit(1); os.Geteuid() != 0 -> log.Fatal
Refused == self.pid # InitPid \/ cred.euid # RootUid

\* main up to the start loop: the two checks, loadConfig (log.Fatalf when
\* it fails), the construction of the tables and the control-channel server
MainEntry(ok) ==
    /\ mainPc = "entry"
    /\ IF Refused
       THEN /\ mainPc' = "refused"
            /\ UNCHANGED <<cfg, env, serviceCmds, serviceStatus, serviceOutputs,
                           toStart, listener>>
       ELSE /\ ok \/ CanInput(env, "fault")
            /\ env' = IF ok THEN env ELSE env \cup {"fault"}
            /\ IF ok
               THEN /\ cfg' = self.file
                    /\ serviceCmds' = [s \in DOMAIN self.file |-> 0]
                    /\ serviceStatus' = [s \in DOMAIN self.file |-> NoStatus]
                    /\ serviceOutputs' = [s \in DOMAIN self.file |-> 0]
                    /\ toStart' = DOMAIN self.file
                    /\ listener' = "pending"
                    /\ mainPc' = "start"
               ELSE /\ mainPc' = "fatal"
                    /\ UNCHANGED <<cfg, serviceCmds, serviceStatus, serviceOutputs,
                                   toStart, listener>>
    /\ UNCHANGED <<self, gate, stop, cred, procs, restartChan, waiters, smPc, smSvc, reaperUp,
                   socketFile, sigChan, sigLeft, shutdownAsked, reqLeft, client, ipc>>

\* the exit status of the supervisor process, -1 while it runs
ExitStatus ==
    CASE mainPc = "returned" -> 0
      [] mainPc \in {"refused", "fatal"} -> 1
      [] OTHER -> -1

EntryNext ==
    \/ \E ok \in BOOLEAN : MainEntry(ok)
    \/ \E s \in ServiceNames : StartService(s)
    \/ StartTasks
    \/ StartDrop
    \/ \E ok \in BOOLEAN : StartIPCServer(ok)
    \/ \E p \in 1..MaxChildren, code \in {0, 1} : ChildExit(p, code)
    \/ \E p \in 1..MaxChildren : ReaperWait(p)
    \/ \E p \in 1..MaxChildren : MonitorWait(p)

EntrySpec == EntryInit /\ [][EntryNext]_vars

\* ------------------------------- runs with the status update in its steps
\* serviceManager statement by statement where it writes a status record
\* that exists: the writes are made through the pointer getServiceStatus
\* returned, after its read lock was released, so other goroutines run
\* between them

\* positions of serviceManager between its elevation and its drop
ManagerPositions == {"elevated", "set_running", "set_pid", "set_time", "drop"}

\* lookup, pipes, cmd.Start(), setServiceCmd, startServiceOutputCapture; on
\* a failure dropPrivileges and continue; setServiceStatus when the service
\* has no record
ManagerStart ==
    /\ Alive
    /\ smPc = "elevated"
    /\ \E o \in SpawnFaults(env) :
         LET pid == Len(procs) + 1 IN
           IF Spawned(cred, o)
           THEN /\ procs' = Append(procs, NewProc(smSvc, FALSE, FALSE))
                /\ serviceCmds' = [serviceCmds EXCEPT ![smSvc] = pid]
                /\ serviceOutputs' = [serviceOutputs EXCEPT ![smSvc] = pid]
                /\ serviceStatus' = IF serviceStatus[smSvc].exists THEN serviceStatus
                                    ELSE [serviceStatus EXCEPT ![smSvc] =
                                            [exists |-> TRUE, running |-> TRUE, pid |-> pid,
                                             startTime |-> pid, restarts |-> 0]]
                /\ smPc' = IF serviceStatus[smSvc].exists THEN "set_running" ELSE "drop"
                /\ UNCHANGED <<cred, env, smSvc>>
           ELSE /\ \E f \in DropFaults(Charge(env, o)) :
                     /\ cred' = dropPrivileges(cred, f).cred
                     /\ env' = Charge(Charge(env, o), f)
                /\ smPc' = "idle"
                /\ smSvc' = ""
                /\ UNCHANGED <<procs, serviceCmds, serviceOutputs, serviceStatus>>
    /\ UNCHANGED <<cfg, self, gate, stop, reqLeft, client, sigChan, sigLeft, shutdownAsked, restartChan,
                   mainPc, toStart, waiters, reaperUp, listener, socketFile, ipc>>

\* status.Running = true
ManagerSetRunning ==
    /\ Alive
    /\ smPc = "set_running"
    /\ smPc' = "set_pid"
    /\ serviceStatus' = [serviceStatus EXCEPT ![smSvc].running = TRUE]
    /\ UNCHANGED <<cfg, self, gate, stop, reqLeft, client, sigChan, sigLeft, shutdownAsked, cred, env, procs,
                   serviceCmds, serviceOutputs, restartChan, mainPc, toStart, waiters,
                   smSvc, reaperUp, listener, socketFile, ipc>>

\* status.PID = cmd.Process.Pid
ManagerSetPid ==
    /\ Alive
    /\ smPc = "set_pid"
    /\ smPc' = "set_time"
    /\ serviceStatus' = [serviceStatus EXCEPT ![smSvc].pid = serviceCmds[smSvc]]
    /\ UNCHANGED <<cfg, self, gate, stop, reqLeft, client, sigChan, sigLeft, shutdownAsked, cred, env, procs,
                   serviceCmds, serviceOutputs, restartChan, mainPc, toStart, waiters,
                   smSvc, reaperUp, listener, socketFile, ipc>>

\* status.StartTime = time.Now()
ManagerSetStartTime ==
    /\ Alive
    /\ smPc = "set_time"
    /\ smPc' = "drop"
    /\ serviceStatus' = [serviceStatus EXCEPT ![smSvc].startTime = serviceCmds[smSvc]]
    /\ UNCHANGED <<cfg, self, gate, stop, reqLeft, client, sigChan, sigLeft, shutdownAsked, cred, env, procs,
                   serviceCmds, serviceOutputs, restartChan, mainPc, toStart, waiters,
                   smSvc, reaperUp, listener, socketFile, ipc>>

\* dropPrivileges, and go d.monitorService(svc, cmd) unless the drop failed
ManagerFinish ==
    /\ Alive
    /\ smPc = "drop"
    /\ smPc' = "idle"
    /\ smSvc' = ""
    /\ \E f \in DropFaults(env) :
         LET res == dropPrivileges(cred, f) IN
           /\ cred' = res.cred
           /\ env' = Charge(env, f)
           /\ procs' = IF res.err = "nil"
                       THEN [procs EXCEPT ![serviceCmds[smSvc]].mon = "wait"]
                       ELSE procs
    /\ UNCHANGED <<cfg, self, gate, stop, reqLeft, client, sigChan, sigLeft, shutdownAsked, serviceCmds,
                   serviceStatus, serviceOutputs, restartChan, mainPc, toStart, waiters,
                   reaperUp, listener, socketFile, ipc>>

\* one service that only a request restarts and up to MaxRequests requests
RaceNext ==
    \/ \E s \in ServiceNames : StartService(s)
    \/ StartTasks
    \/ StartDrop
    \/ \E ok \in BOOLEAN : StartIPCServer(ok)
    \/ \E p \in 1..MaxChildren, code \in {0, 1} : ChildExit(p, code)
    \/ \E p \in 1..MaxChildren : ReaperWait(p)
    \/ \E p \in 1..MaxChildren : MonitorWait(p)
    \/ ManagerReceive
    \/ ManagerStart
    \/ ManagerSetRunning
    \/ ManagerSetPid
    \/ ManagerSetStartTime
    \/ ManagerFinish
    \/ \E name \in RequestNames : IPCRestart(name)
    \/ \E cmd \in {"list", "status"}, name \in RequestNames : IPCReadBegin(cmd, name)
    \/ IPCReadEncode

RaceSpec == IpcInit /\ [][RaceNext]_vars

\* ------------------------------------------------- the gate on its own
RootGid == RootUid

\* any credentials over the ids of root and of the app user
GateCreds ==
    [ruid : {RootUid, AppUid}, euid : {RootUid, AppUid}, suid : {RootUid, AppUid},
     rgid : {RootGid, AppGid}, egid : {RootGid, AppGid}, sgid : {RootGid, AppGid}]

GateInit ==
    /\ cfg \in IpcCatalogs
    /\ self = [pid |-> InitPid, file |-> cfg]
    /\ cred \in GateCreds
    /\ gate = NoCall
    /\ stop = NoStop
    /\ env = {}
    /\ procs = <<>>
    /\ serviceCmds = [s \in DOMAIN cfg |-> 0]
    /\ serviceStatus = [s \in DOMAIN cfg |-> NoStatus]
    /\ serviceOutputs = [s \in DOMAIN cfg |-> 0]
    /\ restartChan = <<>>
    /\ mainPc = "start"
    /\ toStart = DOMAIN cfg
    /\ waiters = {}
    /\ smPc = "notstarted"
    /\ smSvc = ""
    /\ reaperUp = FALSE
    /\ listener = "pending"
    /\ socketFile = FALSE
    /\ sigChan = <<>>
    /\ sigLeft = 0
    /\ shutdownAsked = FALSE
    /\ reqLeft = 0
    /\ client = NoClient
    /\ ipc = [pc |-> "idle", pid |-> 0]

\* a call of dropPrivileges in which the system call named by f fails
GateDrop(f) ==
    /\ cred' = dropPrivileges(cred, f).cred
    /\ gate' = [op |-> "drop", fault |-> f, pre |-> cred,
                err |-> dropPrivileges(cred, f).err]
    /\ UNCHANGED <<cfg, self, stop, env, procs, serviceCmds, serviceStatus, serviceOutputs,
                   restartChan, mainPc, toStart, waiters, smPc, smSvc, reaperUp,
                   listener, socketFile, sigChan, sigLeft, shutdownAsked, reqLeft,
                   client, ipc>>

\* a call of elevatePrivileges in which the system call named by f fails
GateElevate(f) ==
    /\ cred' = elevatePrivileges(cred, f).cred
    /\ gate' = [op |-> "elevate", fault |-> f, pre |-> cred,
                err |-> elevatePrivileges(cred, f).err]
    /\ UNCHANGED <<cfg, self, stop, env, procs, serviceCmds, serviceStatus, serviceOutputs,
                   restartChan, mainPc, toStart, waiters, smPc, smSvc, reaperUp,
                   listener, socketFile, sigChan, sigLeft, shutdownAsked, reqLeft,
                   client, ipc>>

GateNext ==
    \/ \E f \in FaultKinds : GateDrop(f)
    \/ \E f \in FaultKinds \ {"lookup"} : GateElevate(f)

GateSpec == GateInit /\ [][GateNext]_vars

\* ------------------------------------------------------ runs with Stop()
\* Stop(), called by the program that embeds the daemon: d.cancel(), then
\* shutdownServices on the caller's goroutine, up to the elevation
StopCancel ==
    /\ Alive
    /\ mainPc = "loop"
    /\ stop.pc = "idle"
    /\ stop' = [done |-> TRUE, pc |-> "sd_begin", waiters |-> {}]
    /\ socketFile' = FALSE
    /\ procs' = StopAllCaptures(procs, serviceOutputs)
    /\ serviceOutputs' = [s \in Services |-> 0]
    /\ UNCHANGED <<cfg, self, gate, reqLeft, client, sigChan, sigLeft, shutdownAsked, cred, env,
                   serviceCmds, serviceStatus, restartChan, mainPc, toStart, waiters,
                   smPc, smSvc, reaperUp, listener, ipc>>

\* shutdownServices in Stop(): elevatePrivileges; on error return
StopElevate ==
    /\ Alive
    /\ stop.pc = "sd_begin"
    /\ \E f \in ElevateFaults(env) :
         LET res == elevatePrivileges(cred, f) IN
           /\ cred' = res.cred
           /\ env' = Charge(env, f)
           /\ stop' = [stop EXCEPT !.pc = IF res.err = "nil" THEN "sd_term" ELSE "returned"]
    /\ UNCHANGED <<cfg, self, gate, reqLeft, client, sigChan, sigLeft, shutdownAsked, procs,
                   serviceCmds, serviceStatus, serviceOutputs, restartChan, mainPc, toStart,
                   waiters, smPc, smSvc, reaperUp, listener, socketFile, ipc>>

\* shutdownServices in Stop(): SIGTERM to every recorded handle
StopTerm ==
    /\ Alive
    /\ stop.pc = "sd_term"
    /\ stop' = [stop EXCEPT !.pc = "sd_wait", !.waiters = Signalled(cred)]
    /\ procs' = [p \in DOMAIN procs |->
                   IF p \in Signalled(cred) THEN [procs[p] EXCEPT !.term = TRUE] ELSE procs[p]]
    /\ UNCHANGED <<cfg, self, gate, reqLeft, client, sigChan, sigLeft, shutdownAsked, cred, env,
                   serviceCmds, serviceStatus, serviceOutputs, restartChan, mainPc, toStart,
                   waiters, smPc, smSvc, reaperUp, listener, socketFile, ipc>>

\* shutdownServices in Stop(): one of the c.Wait() goroutines returns
StopWait(p) ==
    /\ Alive
    /\ stop.pc \in {"sd_wait", "sd_sleep"}
    /\ p \in stop.waiters
    /\ procs[p].st \in {"zombie", "reaped"}
    /\ stop' = [stop EXCEPT !.waiters = @ \ {p}]
    /\ procs' = IF Collects(procs[p])
                THEN [procs EXCEPT ![p].st = "reaped", ![p].waited = @ + 1]
                ELSE procs
    /\ UNCHANGED <<cfg, self, gate, reqLeft, client, sigChan, sigLeft, shutdownAsked, cred, env,
                   serviceCmds, serviceStatus, serviceOutputs, restartChan, mainPc, toStart,
                   waiters, smPc, smSvc, reaperUp, listener, socketFile, ipc>>

\* shutdownServices in Stop(): case <-done
StopDone ==
    /\ Alive
    /\ stop.pc = "sd_wait"
    /\ stop.waiters = {}
    /\ stop' = [stop EXCEPT !.pc = "returned"]
    /\ UNCHANGED <<cfg, self, gate, reqLeft, client, sigChan, sigLeft, shutdownAsked, cred, env,
                   procs, serviceCmds, serviceStatus, serviceOutputs, restartChan, mainPc,
                   toStart, waiters, smPc, smSvc, reaperUp, listener, socketFile, ipc>>

\* shutdownServices in Stop(): case <-time.After(shutdownTimeout), Kill()
StopTimeout ==
    /\ Alive
    /\ stop.pc = "sd_wait"
    /\ stop' = [stop EXCEPT !.pc = "sd_sleep"]
    /\ procs' = [p \in DOMAIN procs |->
                   IF p \in Signalled(cred) THEN [procs[p] EXCEPT !.kill = TRUE] ELSE procs[p]]
    /\ UNCHANGED <<cfg, self, gate, reqLeft, client, sigChan, sigLeft, shutdownAsked, cred, env,
                   serviceCmds, serviceStatus, serviceOutputs, restartChan, mainPc, toStart,
                   waiters, smPc, smSvc, reaperUp, listener, socketFile, ipc>>

\* shutdownServices in Stop(): the 2 s grace period ends; Stop returns
StopGrace ==
    /\ Alive
    /\ stop.pc = "sd_sleep"
    /\ stop' = [stop EXCEPT !.pc = "returned"]
    /\ UNCHANGED <<cfg, self, gate, reqLeft, client, sigChan, sigLeft, shutdownAsked, cred, env,
                   procs, serviceCmds, serviceStatus, serviceOutputs, restartChan, mainPc,
                   toStart, waiters, smPc, smSvc, reaperUp, listener, socketFile, ipc>>

\* one service that is restarted, or run again after its interval, and a
\* program that calls Stop(); no signal and no request
CancelCatalogs ==
    { Catalog1(Descriptor(RestartAlways, 0, FALSE, 0)),
      Catalog1(Descriptor(RestartNever, 0, TRUE, 1)) }

CancelInit == InitWith(CancelCatalogs, 0, 0)

CancelNext ==
    \/ \E s \in ServiceNames : StartService(s)
    \/ StartTasks
    \/ StartDrop
    \/ \E ok \in BOOLEAN : StartIPCServer(ok)
    \/ \E p \in 1..MaxChildren, code \in {0, 1} : ChildExit(p, code)
    \/ \E p \in 1..MaxChildren : ReaperWait(p)
    \/ \E p \in 1..MaxChildren : MonitorWait(p)
    \/ \E p \in 1..MaxChildren : MonitorIncr(p)
    \/ \E p \in 1..MaxChildren : MonitorEnqueue(p)
    \/ ManagerReceive
    \/ ManagerSpawn
    \/ StopCancel
    \/ StopElevate
    \/ StopTerm
    \/ \E p \in 1..MaxChildren : StopWait(p)
    \/ StopDone
    \/ StopTimeout
    \/ StopGrace

CancelSpec == CancelInit /\ [][CancelNext]_vars

\* ------------------------------------------- runs of a scheduled oneshot
\* one oneshot service with an interval, whose policy is never and whose
\* max_restarts is set; no signal, no request
OneshotCatalogs == { Catalog1(Descriptor(RestartNever, MaxRestartsCfg, TRUE, 1)) }

OneshotInit == InitWith(OneshotCatalogs, 0, 0)

OneshotNext ==
    \/ \E s \in ServiceNames : StartService(s)
    \/ StartTasks
    \/ StartDrop
    \/ \E ok \in BOOLEAN : StartIPCServer(ok)
    \/ \E p \in 1..MaxChildren, code \in {0, 1} : ChildExit(p, code)
    \/ \E p \in 1..MaxChildren : ReaperWait(p)
    \/ \E p \in 1..MaxChildren : MonitorWait(p)
    \/ \E p \in 1..MaxChildren : MonitorEnqueue(p)
    \/ ManagerReceive
    \/ ManagerSpawn

\* the goroutines of the monitors are scheduled and their sleeps end
OneshotSpec ==
    /\ OneshotInit /\ [][OneshotNext]_vars
    /\ \A p \in 1..MaxChildren :
          WF_vars(MonitorWait(p)) /\ WF_vars(MonitorEnqueue(p))

\* ------------------------------------------------ runs of the captures
\* the read ends of a child's pipes are closed by the cmd.Wait() of its
\* monitor once that call has returned
PipeClosed(proc) == proc.mon \notin {"none", "wait"}

\* a write end of the pipes of the child is open: in the child itself or in
\* a descendant that inherited it
WriteEndOpen(proc) == proc.st = "running" \/ proc.held

\* what scanner.Scan() does in captureOutput: "closed" when the read end was
\* closed, "line" when output is there, "eof" when no write end is left, and
\* "blocked" otherwise
ScanResult(proc, stream) ==
    IF PipeClosed(proc) THEN "closed"
    ELSE IF stream \in proc.out THEN "line"
    ELSE IF ~WriteEndOpen(proc) THEN "eof"
    ELSE "blocked"

\* the select of captureOutput on a scanned line: return when stopChan is
\* closed, log the line and scan again otherwise
AfterLine(proc) == IF proc.cap = "stopped" THEN "done" ELSE "scan"

\* the child, or a descendant holding the write end, writes a line
ChildWrite(p, stream) ==
    /\ Alive
    /\ p \in Pids
    /\ WriteEndOpen(procs[p])
    /\ stream \notin procs[p].out
    /\ procs' = [procs EXCEPT ![p].out = @ \cup {stream}]
    /\ UNCHANGED <<cfg, self, gate, stop, reqLeft, client, sigChan, sigLeft, shutdownAsked, cred, env,
                   serviceCmds, serviceStatus, serviceOutputs, restartChan, mainPc, toStart,
                   waiters, smPc, smSvc, reaperUp, listener, socketFile, ipc>>

\* the child forks a descendant, which inherits the write ends
ChildFork(p) ==
    /\ Alive
    /\ p \in Pids
    /\ procs[p].st = "running"
    /\ ~procs[p].held
    /\ procs' = [procs EXCEPT ![p].held = TRUE]
    /\ UNCHANGED <<cfg, self, gate, stop, reqLeft, client, sigChan, sigLeft, shutdownAsked, cred, env,
                   serviceCmds, serviceStatus, serviceOutputs, restartChan, mainPc, toStart,
                   waiters, smPc, smSvc, reaperUp, listener, socketFile, ipc>>

\* the descendant exits and its write ends are closed
DescendantExit(p) ==
    /\ Alive
    /\ p \in Pids
    /\ procs[p].held
    /\ procs' = [procs EXCEPT ![p].held = FALSE]
    /\ UNCHANGED <<cfg, self, gate, stop, reqLeft, client, sigChan, sigLeft, shutdownAsked, cred, env,
                   serviceCmds, serviceStatus, serviceOutputs, restartChan, mainPc, toStart,
                   waiters, smPc, smSvc, reaperUp, listener, socketFile, ipc>>

\* captureOutput: scanner.Scan() returns; on false the loop is left and the
\* deferred pipe.Close() runs
ReaderScan(p, stream) ==
    /\ Alive
    /\ p \in Pids
    /\ procs[p].rd[stream] = "scan"
    /\ ScanResult(procs[p], stream) # "blocked"
    /\ procs' = IF ScanResult(procs[p], stream) = "line"
                THEN [procs EXCEPT ![p].rd[stream] = "line", ![p].out = @ \ {stream}]
                ELSE [procs EXCEPT ![p].rd[stream] = "done"]
    /\ UNCHANGED <<cfg, self, gate, stop, reqLeft, client, sigChan, sigLeft, shutdownAsked, cred, env,
                   serviceCmds, serviceStatus, serviceOutputs, restartChan, mainPc, toStart,
                   waiters, smPc, smSvc, reaperUp, listener, socketFile, ipc>>

\* captureOutput: the select on the scanned line
ReaderSelect(p, stream) ==
    /\ Alive
    /\ p \in Pids
    /\ procs[p].rd[stream] = "line"
    /\ procs' = [procs EXCEPT ![p].rd[stream] = AfterLine(procs[p])]
    /\ UNCHANGED <<cfg, self, gate, stop, reqLeft, client, sigChan, sigLeft, shutdownAsked, cred, env,
                   serviceCmds, serviceStatus, serviceOutputs, restartChan, mainPc, toStart,
                   waiters, smPc, smSvc, reaperUp, listener, socketFile, ipc>>

\* one service that is never restarted by its monitor, and one request
CaptureCatalogs == { Catalog1(Descriptor(RestartNever, 0, FALSE, 0)) }

CaptureInit == InitWith(CaptureCatalogs, 0, 1)

CaptureNext ==
    \/ \E s \in ServiceNames : StartService(s)
    \/ StartTasks
    \/ StartDrop
    \/ \E ok \in BOOLEAN : StartIPCServer(ok)
    \/ \E p \in 1..MaxChildren, code \in {0, 1} : ChildExit(p, code)
    \/ \E p \in 1..MaxChildren : ReaperWait(p)
    \/ \E p \in 1..MaxChildren : MonitorWait(p)
    \/ ManagerReceive
    \/ ManagerSpawn
    \/ \E name \in RequestNames : IPCRestart(name)
    \/ \E p \in 1..MaxChildren, stream \in Streams : ChildWrite(p, stream)
    \/ \E p \in 1..MaxChildren : ChildFork(p)
    \/ \E p \in 1..MaxChildren : DescendantExit(p)
    \/ \E p \in 1..MaxChildren, stream \in Streams : ReaderScan(p, stream)
    \/ \E p \in 1..MaxChildren, stream \in Streams : ReaderSelect(p, stream)

\* the goroutines of the readers and of the monitors are scheduled
CaptureSpec ==
    /\ CaptureInit /\ [][CaptureNext]_vars
    /\ \A p \in 1..MaxChildren : WF_vars(MonitorWait(p))
    /\ \A p \in 1..MaxChildren, stream \in Streams :
          WF_vars(ReaderScan(p, stream)) /\ WF_vars(ReaderSelect(p, stream))

\* ------------------------------------------ runs of "signal" requests
\* one service that is never restarted, and clients that send "signal"
\* requests only
CtlCatalogs == { Catalog1(Descriptor(RestartNever, 0, FALSE, 0)) }

CtlInit == InitWith(CtlCatalogs, 0, MaxRequests)

CtlNext ==
    \/ \E s \in ServiceNames : StartService(s)
    \/ StartTasks
    \/ StartDrop
    \/ \E ok \in BOOLEAN : StartIPCServer(ok)
    \/ \E p \in 1..MaxChildren, code \in {0, 1} : ChildExit(p, code)
    \/ \E p \in 1..MaxChildren : ReaperWait(p)
    \/ \E p \in 1..MaxChildren : MonitorWait(p)
    \/ \E name \in RequestNames, tok \in SignalTokens : IPCSignalBegin(name, tok)
    \/ IPCSignalSend

CtlSpec == CtlInit /\ [][CtlNext]_vars

\* ================================================================ claims
ShutdownStages == {"sd_begin", "sd_term", "sd_wait", "sd_sleep"}
ElevatedStages == {"sd_term", "sd_wait", "sd_sleep"}

\* the tasks that are between a successful elevatePrivileges() and the
\* dropPrivileges() that ends their operation
InWindow ==
    { t \in {"manager", "forward", "ipc", "shutdown"} :
        \/ t = "manager" /\ smPc \in ManagerPositions
        \/ t = "forward" /\ mainPc = "fwd"
        \/ t = "ipc" /\ ipc.pc = "elevated"
        \/ t = "shutdown" /\ mainPc \in ElevatedStages }

\* C1: at most one task at a time is inside an elevation window.
C1_NoOverlap == Cardinality(InWindow) <= 1

\* no task is inside an elevation window and the first drop has been made
Quiescent == mainPc = "loop" /\ smPc = "idle" /\ ipc.pc = "idle"

\* C2: whenever the supervisor is running dropped, with no elevation in
\* progress, the next elevatePrivileges() yields effective uid root.
C2_RootRecoverable ==
    Quiescent => elevatePrivileges(cred, "none").cred.euid = RootUid

\* the service table holds a handle of s whose child has not been waited on
LiveHandle(s) == serviceCmds[s] # 0 /\ procs[serviceCmds[s]].st # "reaped"

\* every exit of a child of s has been handled by its monitor
Settled(s) ==
    \A p \in Pids :
        procs[p].svc = s => (procs[p].st = "running" \/ procs[p].mon \notin {"none", "wait"})

\* C3: for every service, once the exits of its children have been handled,
\* status.running holds exactly when the table holds a live handle.
C3_RunningIffLive ==
    \A s \in Services : Settled(s) => (serviceStatus[s].running <=> LiveHandle(s))

\* the children of s spawned after its initial start
Respawns(s) == { p \in Pids : procs[p].svc = s /\ ~procs[p].initial }

\* C4: a service with max_restarts = N > 0 that is restarted by policy is
\* spawned at most N times after its initial start.
C4_MaxRestartsBound ==
    \A s \in Services :
        (cfg[s].maxRestarts > 0 /\ ~cfg[s].oneshot)
            => Cardinality(Respawns(s)) <= cfg[s].maxRestarts

\* a task that will collect the exit of p exists
HasCollector(p) ==
    \/ procs[p].mon = "wait"
    \/ reaperUp
    \/ p \in waiters /\ mainPc \in {"sd_wait", "sd_sleep"}

\* C5 (as claimed): every exit is collected by the service's monitor or by
\* the reaper.
C5_MonitorOrReaper ==
    [][\A p \in Pids :
         (procs[p].st = "zombie" /\ procs'[p].st = "reaped")
            => (MonitorWait(p) \/ ReaperWait(p))]_vars

\* C5 (amended): every exit is collected exactly once, by the monitor, the
\* reaper or a wait of shutdownServices, and while the supervisor runs a
\* terminated child always has a task that will collect it.
C5_CollectedOnce ==
    \A p \in Pids :
        /\ procs[p].waited = (IF procs[p].st = "reaped" THEN 1 ELSE 0)
        /\ (Alive /\ procs[p].st = "zombie") => HasCollector(p)

C5_Witness ==
    \E p \in Pids :
        /\ procs[p].st = "reaped" /\ procs[p].waited = 1
        /\ procs[p].mon = "wait"
        /\ mainPc \in {"sd_wait", "sd_sleep"}
        /\ procs[p].term /\ p \notin waiters

\* C6: for a non-oneshot service with restart budget left, the monitor asks
\* for a restart exactly when the policy calls for one on the child's real
\* exit status.
C6_PolicyOnRealStatus ==
    [][\A p \in Pids :
         (MonitorWait(p) /\ ~cfg[procs[p].svc].oneshot
            /\ AfterExit(cfg[procs[p].svc], serviceStatus[procs[p].svc], TRUE) # "done")
          => ((procs'[p].mon # "done")
                <=> ShouldRestart(cfg[procs[p].svc].restart, procs[p].code # 0))]_vars

\* C7: once shutdown has begun the restart worker spawns no child.
C7_NoSpawnInShutdown ==
    [][(mainPc \in ShutdownStages) => (Len(procs') = Len(procs))]_vars

\* C8: shutdownServices delivers TERM to every running child, on the path
\* that elevates and on the path whose elevation fails.
C8_TermToEveryChild ==
    [][/\ (mainPc = "sd_term" /\ mainPc' = "sd_wait")
            => \A p \in Pids : procs[p].st = "running" => procs'[p].term
       /\ (mainPc = "sd_begin" /\ mainPc' = "returned")
            => \A p \in Pids : procs[p].st # "running"]_vars

\* C9: once the signal loop has taken TERM, INT or QUIT, shutdownServices
\* returns and the loop ends, whatever the children do and whether or not
\* the elevation succeeds.
C9_ShutdownReturns == (mainPc \in ShutdownStages) ~> (mainPc = "returned")

C9_Witness ==
    /\ mainPc = "returned"
    /\ \E p \in Pids : procs[p].st = "running" /\ procs[p].term /\ procs[p].kill

\* C10 (as claimed): the socket file is removed only when every child has
\* been sent TERM and has exited or been sent KILL.
C10_SocketRemovedLast ==
    [][(socketFile /\ ~socketFile')
         => \A p \in Pids : procs[p].st = "running" => (procs[p].term /\ procs[p].kill)]_vars

\* C10 (amended): the socket file is removed first: the removal is the step
\* that begins shutdownServices, before any child is sent TERM or KILL.
C10_SocketRemovedFirst ==
    [][(socketFile /\ ~socketFile')
         => (mainPc = "loop" /\ \A p \in Pids : ~procs[p].term /\ ~procs[p].kill)]_vars

C10_Witness ==
    /\ mainPc = "sd_wait"
    /\ listener = "listening" /\ ~socketFile
    /\ \E p \in Pids : procs[p].term

\* a delivered TERM, INT or QUIT is waiting in sigChan
ShutdownPending == \E i \in 1..Len(sigChan) : sigChan[i] \in ShutdownSignals

\* C11: a TERM, INT or QUIT delivered to pid 1 is never lost: it waits in
\* sigChan until the dispatcher takes it, or graceful shutdown has begun.
C11_ShutdownSignalKept ==
    shutdownAsked => (ShutdownPending \/ mainPc \in ShutdownStages \cup {"returned"})

\* C12: the forwarding loop, run between one elevatePrivileges and one
\* dropPrivileges, sends the signal to every running child.
C12_ForwardToEveryChild ==
    [][ForwardSend => \A p \in Pids : procs[p].st = "running" => procs'[p].fwd]_vars

\* a step in which a task's dropPrivileges returns nil
DropReturnsNil ==
    /\ StartDrop \/ ManagerSpawn \/ ForwardSend \/ IPCSignalSend
    /\ \E f \in FaultKinds :
         dropPrivileges(cred, f).err = "nil" /\ cred' = dropPrivileges(cred, f).cred

\* C13 (as claimed): after a successful drop the effective uid is the
\* application uid and the saved uid is root.
C13_DropKeepsSavedRoot ==
    [][DropReturnsNil => (cred'.euid = AppUid /\ cred'.suid = RootUid)]_vars

\* C13 (amended): after a successful drop the effective and the saved uid are
\* the application uid, and the real uid is the effective uid the caller
\* had: root is kept in the real uid.
C13_DropKeepsRealRoot ==
    [][DropReturnsNil
         => (cred'.euid = AppUid /\ cred'.suid = AppUid /\ cred'.ruid = cred.euid)]_vars

C13_Witness ==
    /\ mainPc = "loop" /\ smPc = "idle" /\ ipc.pc = "idle"
    /\ \E p \in Pids : ~procs[p].initial
    /\ cred.euid = AppUid /\ cred.suid = AppUid /\ cred.ruid = RootUid

\* the services whose restarts are unbounded: max_restarts = 0, not oneshot,
\* and a policy that restarts
Unbounded(s) ==
    cfg[s].maxRestarts = 0 /\ ~cfg[s].oneshot /\ cfg[s].restart # RestartNever

\* C14: while no shutdown is under way, a restart request for a service with
\* max_restarts = 0 that the restart worker takes off the queue ends in a
\* spawn of the service: the request is not dropped.
C14_UnboundedNeverAbandoned ==
    [][\A s \in Services :
         (Unbounded(s) /\ mainPc \notin ShutdownStages)
            => /\ (ManagerReceive /\ Head(restartChan) = s) => smPc' = "elevated"
               /\ (ManagerSpawn /\ smSvc = s) => Len(procs') = Len(procs) + 1]_vars

\* the children of s spawned so far
ChildrenOf(s) == { p \in Pids : procs[p].svc = s }

\* C15: a oneshot service with interval 0 is spawned at most once.
C15_OneshotRunsOnce ==
    \A s \in Services :
        (cfg[s].oneshot /\ cfg[s].interval = 0) => Cardinality(ChildrenOf(s)) <= 1

\* a monitor of s is between its restart-count check and its increment
Incrementing(s) == \E p \in Pids : procs[p].svc = s /\ procs[p].mon = "incr"

\* C16: for a service with max_restarts = N > 0 the restart count comes to
\* rest at no more than N: with no increment in progress it never exceeds N.
C16_RestartsRestAtMax ==
    \A s \in Services :
        (cfg[s].maxRestarts > 0 /\ ~cfg[s].oneshot /\ ~Incrementing(s))
            => serviceStatus[s].restarts <= cfg[s].maxRestarts

\* C17: the restart count of every service is never negative and no step
\* lowers it.
C17_RestartsMonotonic ==
    [][\A s \in Services :
         /\ serviceStatus'[s].restarts >= 0
         /\ serviceStatus'[s].restarts >= serviceStatus[s].restarts]_vars

\* C18: a "status s" answered after a granted "restart s" that reports s
\* running reports a pid other than the one s had before the restart request.
C18_RestartChangesPid ==
    (client.pc = "idle" /\ client.cmd = "status" /\ client.after
        /\ client.asked \in DOMAIN client.reply /\ client.reply[client.asked].running)
      => client.reply[client.asked].pid # client.prePid

\* C19: the response of a read request carries the status values as they
\* were when getServiceStatus or getAllServiceStatus returned them.
C19_StatusIsSnapshot ==
    (client.pc = "idle" /\ client.cmd # "")
      => client.reply = StatusOf(client.table, client.names)

\* the state of the supervisor that a read request could disturb
SupervisorState == <<serviceCmds, serviceStatus, serviceOutputs, restartChan, cred, procs>>

\* C20: handling "list" changes no supervisor state, and a "list" answered
\* while the status table is what it was throughout the previous "list"
\* returns the result of that previous "list".
C20_ListIsPureRead ==
    [][/\ ((\E name \in RequestNames : IPCReadBegin("list", name))
            \/ (IPCReadEncode /\ client.cmd = "list"))
          => UNCHANGED SupervisorState
       /\ (IPCReadEncode /\ client.cmd = "list" /\ client.prev.cmd = "list"
            /\ client.prev.stable /\ client.prev.table = client.table
            /\ serviceStatus = client.table)
          => client'.reply = client.prev.reply]_vars

C20_Witness ==
    /\ client.pc = "idle" /\ client.cmd = "list" /\ client.prev.cmd = "list"
    /\ client.stable /\ client.prev.stable /\ client.prev.table = client.table
    /\ client.reply = client.prev.reply
    /\ \E n \in DOMAIN client.reply : client.reply[n].running

\* C21: once the start loop is over, "list" reports every configured service.
C21_ListReportsCatalog ==
    mainPc # "start" => ReadNames("list", "") = Services


\* what a "restart" request may not touch when it is refused
ServiceState == <<serviceStatus, serviceCmds, serviceOutputs, procs>>

\* C22: a "restart" request is always answered in one step; with an empty or
\* unknown name, or a full queue, the response is a failure and the queue and
\* the service state are unchanged; otherwise the response is a success and
\* exactly one request for that service is appended to the queue.
C22_RestartFailsCleanly ==
    /\ [](\A name \in RequestNames :
            (Connectable /\ CanRequest) => ENABLED IPCRestart(name))
    /\ [][\A name \in RequestNames :
            IPCRestart(name) =>
              IF name = "" \/ name \notin Services \/ Len(restartChan) >= RestartChanCap
              THEN /\ client'.restart \in {"required", "not found", "full"}
                   /\ UNCHANGED <<restartChan, ServiceState>>
              ELSE /\ client'.restart = "ok"
                   /\ restartChan' = Append(restartChan, name)
                   /\ UNCHANGED ServiceState]_vars

\* a request was refused because the queue was full
C22_Witness ==
    /\ client.restart = "full"
    /\ Len(restartChan) = RestartChanCap

\* C23: entered in daemon mode with a pid other than 1 or an effective uid
\* other than 0, the program exits with a non-zero status, and it has loaded
\* no service, opened no control socket and spawned no child.
C23_RefusesUnlessInit ==
    /\ [][(mainPc = "entry" /\ (self.pid # 1 \/ cred.euid # 0))
            => mainPc' = "refused"]_vars
    /\ [](mainPc = "refused"
            => /\ ExitStatus > 0
               /\ cfg = <<>> /\ serviceStatus = <<>> /\ serviceCmds = <<>>
               /\ listener = "none" /\ ~socketFile
               /\ procs = <<>>)

\* the program was started as root with a pid other than 1 and has exited
C23_Witness ==
    /\ mainPc = "refused"
    /\ self.pid # 1
    /\ cred.euid = 0

\* the step contains a call of dropPrivileges: the credentials become those
\* a drop yields, or the drop meets a failure of the environment
DropCalled ==
    \/ cred' = dropPrivileges(cred, "none").cred
    \/ "fault" \in env' \ env

\* C24: a task that has elevated ends the operation the elevation guards
\* with a call of dropPrivileges, in the restart worker, in signal
\* forwarding, in the control-channel signal handler and in shutdownServices.
C24_DropOnEveryExit ==
    [][\A t \in InWindow : t \notin InWindow' => DropCalled]_vars

\* the dropPrivileges call of the step returns an error: an error of its
\* own (f = "none") or a failure of the environment met in this step
DropFails ==
    /\ ~(dropPrivileges(cred, "none").err = "nil" /\ cred' = dropPrivileges(cred, "none").cred)
    /\ \E f \in FaultKinds :
          /\ dropPrivileges(cred, f).err # "nil"
          /\ cred' = dropPrivileges(cred, f).cred
          /\ f = "none" \/ "fault" \in env' \ env

\* C25: when dropPrivileges fails after the restart worker, the signal
\* forwarder or the control-channel signal handler has elevated, the
\* supervisor exits.
C25_FailedDropIsFatal ==
    [][((ManagerSpawn \/ ForwardSend \/ IPCSignalSend) /\ DropFails)
         => mainPc' \in {"fatal", "returned"}]_vars

\* C26: every spawn is made while the effective uid is root: the initial
\* starts before the first drop, the spawns of the restart worker between
\* its own elevation and its drop, whatever the other tasks do meanwhile.
C26_SpawnOnlyAsRoot ==
    [][(ManagerSpawn \/ \E s \in ServiceNames : StartService(s))
         => cred.euid = 0]_vars

\* the children of service s that have not exited
LiveChildren(s) == { p \in Pids : procs[p].svc = s /\ procs[p].st = "running" }

\* C27: a process of a service is spawned only after the previous one has
\* exited, so a service never has more than one live child, restarts asked
\* for over the control channel included.
C27_OneLiveChildPerService ==
    \A s \in Services : Cardinality(LiveChildren(s)) <= 1

\* C28: the status records are written under the writer lock, so a record
\* that a control-channel read returns is never one that is partly updated:
\* its pid and its start time belong to the same process.
C28_NoPartialUpdateRead ==
    (client.pc = "idle" /\ client.cmd # "")
      => \A n \in DOMAIN client.reply :
            client.reply[n].startTime = client.reply[n].pid

\* C29: when the gid change of dropPrivileges or elevatePrivileges fails
\* after the uid change succeeded, the uid is restored: if the restore
\* succeeds the call returns the gid error and the effective uid and gid
\* are those before the call; if the restore fails too, the error returned
\* reports both failures.
C29_GateRestoresUid ==
    /\ (gate.fault = "gid" /\ gate.err # "setreuid")
         => gate.err \in {"setregid", "setregid+restore"}
    /\ (gate.fault = "gid+restore" /\ gate.err # "setreuid")
         => gate.err = "setregid+restore"
    /\ gate.err = "setregid"
         => cred.euid = gate.pre.euid /\ cred.egid = gate.pre.egid

\* a drop made as root whose gid change failed and whose restore succeeded
C29_Witness ==
    /\ gate.op = "drop" /\ gate.fault = "gid" /\ gate.err = "setregid"
    /\ gate.pre.euid = 0 /\ gate.pre.ruid # 0

\* C30: when the elevation fails in the restart worker, the request is
\* dropped: nothing is spawned, no table is changed, dropPrivileges is not
\* called (the credentials are those the failed elevation left), and the
\* worker is ready for the next request.
C30_FailedElevationSkipsRequest ==
    [][(ManagerReceive /\ "fault" \in env' \ env)
         => /\ restartChan' = Tail(restartChan)
            /\ UNCHANGED ServiceState
            /\ \E f \in FaultKinds \ {"none", "lookup"} :
                  cred' = elevatePrivileges(cred, f).cred
            /\ smPc' = "idle"]_vars

\* after a request was dropped at a failed elevation, the worker serves
\* the next one
C30_Witness ==
    /\ gate.op = "elevate" /\ gate.err # "nil"
    /\ smPc = "elevated"

\* C31: when d.ctx has been cancelled before a monitor performs its enqueue,
\* the monitor drops the request: nothing is put on the restart queue.
C31_CancelledEnqueueDropped ==
    [][\A p \in Pids : (MonitorEnqueue(p) /\ stop.done)
                          => restartChan' = restartChan]_vars

\* C32: for a oneshot service with an interval, every exit of a child is
\* followed by the enqueueing of one restart request by its monitor, unless
\* the supervisor ends, whatever the exit status, the policy and
\* max_restarts; and the restarts counter is never changed.
C32_OneshotRescheduled ==
    /\ \A p \in 1..MaxChildren :
          (p \in Pids /\ procs[p].st \in {"zombie", "reaped"})
            ~> (~Alive \/ (p \in Pids /\ procs[p].mon = "done"))
    /\ [](\A s \in Services : serviceStatus[s].restarts = 0)

\* C33: a monitor that handles an exit changes nothing in the status table
\* but the running flag of its service; the pid and the start time of a
\* record change only when they are overwritten with those of a newly
\* spawned process of the service.
C33_ExitKeepsPidAndStartTime ==
    [][/\ \A p \in Pids :
            MonitorWait(p) =>
              \A s \in Services :
                /\ serviceStatus'[s].pid = serviceStatus[s].pid
                /\ serviceStatus'[s].startTime = serviceStatus[s].startTime
                /\ serviceStatus'[s].restarts = serviceStatus[s].restarts
                /\ serviceStatus'[s].running # serviceStatus[s].running
                      => (s = procs[p].svc /\ ~serviceStatus'[s].running)
       /\ \A s \in Services :
            (\/ serviceStatus'[s].pid # serviceStatus[s].pid
             \/ serviceStatus'[s].startTime # serviceStatus[s].startTime)
              => /\ Len(procs') = Len(procs) + 1
                 /\ procs'[Len(procs')].svc = s
                 /\ serviceStatus'[s].pid = Len(procs')
                 /\ serviceStatus'[s].startTime = Len(procs')]_vars

\* a monitor has handled the exit of a child and the record of the service
\* still shows that child's pid and start time
C33_Witness ==
    \E p \in Pids :
      /\ procs[p].st = "reaped" /\ procs[p].mon \in {"sleep", "incr", "done"}
      /\ serviceStatus[procs[p].svc].exists
      /\ ~serviceStatus[procs[p].svc].running
      /\ serviceStatus[procs[p].svc].pid = p
      /\ serviceStatus[procs[p].svc].startTime = p
\* C34: once a capture is stopped, each of its two readers ends (its pipe
\* end closed), with or without further output and with the write end held
\* open, as long as the supervisor runs.
C34_StoppedReadersEnd ==
    \A p \in 1..MaxChildren, stream \in Streams :
        (p \in Pids /\ procs[p].cap = "stopped")
          ~> (~Alive \/ (p \in Pids /\ procs[p].rd[stream] = "done"))

\* C35: whenever Start makes its first call of dropPrivileges, the listener
\* of the control socket has already been created.
C35_ListenerBeforeFirstDrop ==
    [][StartDrop => listener = "listening"]_vars

\* a "signal" request without a service name, without a signal, or with a
\* token that is none of HUP, TERM, KILL, USR1, USR2 (SIG prefix or not)
Malformed(name, tok) == name = "" \/ tok = "" \/ ParseSignal(tok) = "invalid"

\* C36: a malformed "signal" request is answered with a failure and changes
\* nothing: no elevation, no signal, credentials and service state as before.
C36_MalformedSignalRefused ==
    [][\A name \in RequestNames, tok \in SignalTokens :
          (IPCSignalBegin(name, tok) /\ Malformed(name, tok))
            => /\ client'.signal \in {"required", "not running", "unsupported"}
               /\ cred' = cred
               /\ ipc' = ipc
               /\ procs' = procs
               /\ serviceCmds' = serviceCmds
               /\ serviceStatus' = serviceStatus
               /\ restartChan' = restartChan]_vars

\* a request naming a service with a handle was refused for its token, after
\* the first drop, and the supervisor is not elevated
C36_Witness ==
    /\ client.signal = "unsupported"
    /\ mainPc = "loop"
    /\ ipc.pc = "idle"
    /\ cred.euid = AppUid

\* C37: the restart count of a service with max_restarts = N > 0 is at most
\* N in every reachable state, whatever number of its monitors are active.
C37_RestartsNeverAboveMax ==
    \A s \in Services :
        cfg[s].maxRestarts > 0 => serviceStatus[s].restarts <= cfg[s].maxRestarts

\* C38: every child the restart worker has spawned has a monitor task.
C38_RespawnIsMonitored ==
    \A p \in Pids : ~procs[p].initial => procs[p].mon # "none"

\* the children whose handle is in the table: forwarding and shutdownServices
\* call Process.Signal or Process.Kill on each of them
Handles == { p \in Pids : \E n \in Services : serviceCmds[n] = p }

\* C39: no signal is sent through the handle of a child whose exit has been
\* collected, by forwarding, by the TERM and KILL of shutdownServices or by a
\* "signal" request.
C39_NoSignalToCollected ==
    [][ /\ (ForwardSend \/ ShutdownTerm \/ ShutdownTimeout)
            => \A p \in Handles : procs[p].st # "reaped"
        /\ IPCSignalSend => procs[ipc.pid].st # "reaped" ]_vars

\* the credentials an elevation leaves: effective ids root, real ids those
\* of the application
ElevatedCreds(c) ==
    /\ c.euid = RootUid /\ c.suid = RootUid /\ c.ruid = AppUid
    /\ c.egid = RootGid /\ c.sgid = RootGid /\ c.rgid = AppGid

\* C40: a call of elevatePrivileges made while elevated, no system call
\* failing, returns nil and leaves the effective uid and gid root.
C40_ElevateIdempotent ==
    (gate.op = "elevate" /\ gate.fault = "none" /\ ElevatedCreds(gate.pre))
        => (gate.err = "nil" /\ cred.euid = RootUid /\ cred.egid = RootGid)

====
